---- MODULE Spec2Model ----
(***************************************************************************)
(* Model of the Oracle's Elixir cleaning pipeline                          *)
(* (src/oracles_elixir/oracles_elixir.py): OraclesElixir.clean_data and    *)
(* its stages, and the module-level get_opponent.                          *)
(*                                                                         *)
(* A table (pandas DataFrame) is a sequence of rows; a row is a function   *)
(* from column names to cells.  A string cell is a sequence of tokens, so  *)
(* that str.strip really removes the leading and trailing whitespace       *)
(* tokens; NaN is the reserved cell Missing.  A date cell is <<kind, n>>   *)
(* with kind "str" before pd.to_datetime and "ts" after it.                *)
(***************************************************************************)
EXTENDS Integers, Sequences, FiniteSets, TLC

VARIABLES
    raw,                 \* the caller's raw table (the object handed to clean_data)
    raw_before,          \* the value of raw when clean_data was called
    edits,               \* number of irregularities the ingested table carries
    split_on,            \* clean_data argument
    team_replacements,   \* clean_data argument
    player_replacements, \* clean_data argument
    oe_data,             \* clean_data's local variable oe_data
    pc,                  \* 0: not called; k: about to run Pipeline[k]; past the end: finished
    status,              \* "idle" | "running" | "returned" | "raised"
    err,                 \* the exception clean_data raised ("" when none)
    column,              \* get_opponent: argument column (a list)
    entity,              \* get_opponent: argument entity
    gi,                  \* get_opponent: loop index i
    flag,                \* get_opponent: local flag
    opponent,            \* get_opponent: local list opponent
    g_pc,                \* get_opponent: "idle" | "start" | "loop" | "returned" | "raised"
    g_err,               \* get_opponent: the exception raised ("" when none)
    user_registration,   \* the bot's table user_registration: its rows, in user_id order
    cmds                 \* the !register commands invoked so far: author, position, reply

pipe_vars == <<raw, raw_before, edits, split_on, team_replacements,
               player_replacements, oe_data, pc, status, err>>
opp_vars == <<column, entity, gi, flag, opponent, g_pc, g_err>>
reg_vars == <<user_registration, cmds>>
vars == <<raw, raw_before, edits, split_on, team_replacements,
          player_replacements, oe_data, pc, status, err,
          column, entity, gi, flag, opponent, g_pc, g_err,
          user_registration, cmds>>

(***************************************************************************)
(* Bounds of the model.                                                    *)
(***************************************************************************)
\* irregularities applied to a well-formed ingested table
MaxEdits == 2
\* longest column handed to get_opponent on its own
MaxCol == 11
\* !register commands the bot receives
MaxCmds == 3

(***************************************************************************)
(* Cells.                                                                  *)
(***************************************************************************)
\* np.nan
Missing == <<"<NaN>">>

\* a one-word string
Str(t) == <<t>>

\* the whitespace token
WS == " "

IsNull(c) == c = Missing

\* the tokens of the model's strings, in Python's string order
Alphabet == <<WS, "Alpha", "Beta", "Blue", "Delta", "Gamma", "LCK", "Omega",
              "Red", "bot", "g1", "g2", "jng", "mid", "nan", "null",
              "p1", "p2", "p3", "p4", "p5", "q1", "q2", "q3", "q4", "q5",
              "sup", "t1", "t2", "t3", "t4", "team", "top",
              "unknown player", "unknown team">>

RankTable ==
    [t \in {Alphabet[k] : k \in 1..Len(Alphabet)} |->
        CHOOSE k \in 1..Len(Alphabet) : Alphabet[k] = t]

TokenRank(t) == RankTable[t]

\* Python's str.strip on a token sequence
RECURSIVE LStrip(_)
LStrip(s) == IF s # <<>> /\ Head(s) = WS THEN LStrip(Tail(s)) ELSE s

RECURSIVE RStrip(_)
RStrip(s) ==
    IF s # <<>> /\ s[Len(s)] = WS THEN RStrip(SubSeq(s, 1, Len(s) - 1)) ELSE s

\* Series.str.strip: NaN stays NaN
StrStrip(c) == IF IsNull(c) THEN c ELSE RStrip(LStrip(c))

\* s < t for two strings, as Python compares them
RECURSIVE StrLess(_, _)
StrLess(s, t) ==
    IF t = <<>> THEN FALSE
    ELSE IF s = <<>> THEN TRUE
    ELSE IF Head(s) = Head(t) THEN StrLess(Tail(s), Tail(t))
    ELSE TokenRank(Head(s)) < TokenRank(Head(t))

(***************************************************************************)
(* Rows and tables.                                                        *)
(***************************************************************************)
RawColumns == {"date", "gameid", "side", "position", "league", "teamname",
               "teamid", "playername", "playerid", "earned gpm", "gamelength"}

MkRow(g, d, side, pos, team, tid, pname, pid, gpm) ==
    [c \in RawColumns |->
        CASE c = "date" -> <<"str", d>>
          [] c = "gameid" -> Str(g)
          [] c = "side" -> Str(side)
          [] c = "position" -> Str(pos)
          [] c = "league" -> Str("LCK")
          [] c = "teamname" -> Str(team)
          [] c = "teamid" -> Str(tid)
          [] c = "playername" -> pname
          [] c = "playerid" -> pid
          [] c = "earned gpm" -> gpm
          [] OTHER -> 1800]

\* a team-level row of the raw data: no player name, no player id
TeamRow(g, side, team, tid, gpm) ==
    MkRow(g, 1, side, "team", team, tid, Missing, Missing, gpm)

PlayerRow(g, side, pos, team, tid, p, gpm) ==
    MkRow(g, 1, side, pos, team, tid, Str(p), Str(p), gpm)

Positions == <<"top", "jng", "mid", "bot", "sup">>

\* two games at team level, and one player row of the first game
TeamBase ==
    << TeamRow("g1", "Blue", "Alpha", "t1", 250),
       TeamRow("g1", "Red", "Beta", "t2", 240),
       TeamRow("g2", "Blue", "Gamma", "t3", 230),
       TeamRow("g2", "Red", "Delta", "t4", 220),
       PlayerRow("g1", "Blue", "top", "Alpha", "t1", "p1", 50) >>

\* one whole game as the raw data lists it: ten player rows, then two team rows
PlayerBase ==
    [k \in 1..5 |-> PlayerRow("g1", "Blue", Positions[k], "Alpha", "t1",
                              Alphabet[TokenRank("p1") + k - 1], 50 + k)]
    \o [k \in 1..5 |-> PlayerRow("g1", "Red", Positions[k], "Beta", "t2",
                                 Alphabet[TokenRank("q1") + k - 1], 40 + k)]
    \o << TeamRow("g1", "Blue", "Alpha", "t1", 250),
          TeamRow("g1", "Red", "Beta", "t2", 240) >>

BaseTables == {TeamBase, PlayerBase}

\* the rows of a table an irregularity may fall on
EditRows == {1, 3}


\* the irregularities of a cell: (column, what happens to it)
CellEdits == {<<"gameid", "pad">>, <<"gameid", "nan">>,
              <<"teamid", "missing">>, <<"teamname", "missing">>,
              <<"teamname", "unknown">>, <<"playerid", "missing">>,
              <<"playername", "missing">>, <<"playername", "unknown">>,
              <<"date", "later">>}

EditCell(r, e) ==
    [r EXCEPT ![e[1]] =
        CASE e[2] = "pad" -> IF IsNull(@) THEN @ ELSE <<WS>> \o @
          [] e[2] = "nan" -> Str("nan")
          [] e[2] = "missing" -> Missing
          [] e[2] = "unknown" ->
                IF e[1] = "teamname" THEN Str("unknown team")
                ELSE Str("unknown player")
          [] OTHER -> <<@[1], @[2] + 1>>]

RemoveAt(t, i) == SubSeq(t, 1, i - 1) \o SubSeq(t, i + 1, Len(t))

InsertAfter(t, i, r) == SubSeq(t, 1, i) \o <<r>> \o SubSeq(t, i + 1, Len(t))

\* a DataFrame, and Python's None in its place
DataFrame(rows) == [kind |-> "DataFrame", rows |-> rows]
NoneValue == [kind |-> "None", rows |-> <<>>]
IsFrame(f) == f.kind = "DataFrame"

\* the outcome of a stage: a value, or an exception
Ok(f) == [ok |-> TRUE, frame |-> f, err |-> ""]
Raise(e) == [ok |-> FALSE, frame |-> NoneValue, err |-> e]

\* split_on values: the two recognized ones, a differently-cased one, None
PyNone == "<None>"

\* str.lower on the split_on values
Lower(s) == IF s = "Team" THEN "team" ELSE s

NoReplacements == <<>>
TeamReplacements == (Str("Alpha") :> Str("Omega"))
PlayerReplacements == (Str("p1") :> Str("p2"))

\* the calls of clean_data: the recognized granularities with a replacement
\* map each, the unrecognized ones with the default None
Calls ==
    {[split_on |-> "team", team_replacements |-> TeamReplacements,
      player_replacements |-> NoReplacements],
     [split_on |-> "player", team_replacements |-> NoReplacements,
      player_replacements |-> PlayerReplacements],
     [split_on |-> "Team", team_replacements |-> NoReplacements,
      player_replacements |-> NoReplacements],
     [split_on |-> PyNone, team_replacements |-> NoReplacements,
      player_replacements |-> NoReplacements]}

(***************************************************************************)
(* get_opponent.                                                           *)
(***************************************************************************)
\* variant: the two gaps of gap_dict exchanged
GapSwapped(e) == CASE e = "player" -> 1 [] e = "team" -> 5 [] OTHER -> 0

\* gap_dict.get(entity): 0 stands for None
Gap(e) == CASE e = "player" -> 5 [] e = "team" -> 1 [] OTHER -> 0

\* Python's list indexing col[k], k counted from 0: a negative k counts from
\* the end, and an index outside the list raises IndexError
InRange(col, k) == -Len(col) <= k /\ k < Len(col)
PyIndex(col, k) == IF k >= 0 THEN col[k + 1] ELSE col[Len(col) + k + 1]

\* variant: the red side reads its own row
RedSideSelf(i, gap) == i

\* the red-side read of one iteration: column[i - gap]
RedSideIndex(i, gap) == i - gap

\* variant: the flag is reset one row late
LoopBodyLateReset(col, gap, s) ==
    LET k == IF s.flag < gap THEN s.i + gap ELSE RedSideIndex(s.i, gap)
        f == IF s.flag + 1 > gap * 2 THEN 0 ELSE s.flag + 1
    IN  IF ~(s.flag < gap) /\ ~(gap <= s.flag /\ s.flag < gap * 2)
        THEN [s EXCEPT !.err = "ValueError"]
        ELSE IF ~InRange(col, k)
        THEN [s EXCEPT !.err = "IndexError"]
        ELSE [i |-> s.i + 1, flag |-> f,
              opponent |-> Append(s.opponent, PyIndex(col, k)), err |-> ""]

\* one iteration of the for loop, on the locals s = [i, flag, opponent, err]
LoopBody(col, gap, s) ==
    LET k == IF s.flag < gap THEN s.i + gap ELSE RedSideIndex(s.i, gap)
        f == IF s.flag + 1 >= gap * 2 THEN 0 ELSE s.flag + 1
    IN  IF ~(s.flag < gap) /\ ~(gap <= s.flag /\ s.flag < gap * 2)
        THEN [s EXCEPT !.err = "ValueError"]
        ELSE IF ~InRange(col, k)
        THEN [s EXCEPT !.err = "IndexError"]
        ELSE [i |-> s.i + 1, flag |-> f,
              opponent |-> Append(s.opponent, PyIndex(col, k)), err |-> ""]

RECURSIVE RunLoop(_, _, _)
RunLoop(col, gap, s) ==
    IF s.err # "" \/ s.i >= Len(col) THEN s
    ELSE RunLoop(col, gap, LoopBody(col, gap, s))

\* get_opponent(column, entity) run to its end: [err, opponent]
GetOpponent(col, e) ==
    IF Gap(e) = 0 THEN [i |-> 0, flag |-> 0, opponent |-> <<>>, err |-> "ValueError"]
    ELSE RunLoop(col, Gap(e), [i |-> 0, flag |-> 0, opponent |-> <<>>, err |-> ""])


(***************************************************************************)
(* The stages of clean_data.                                               *)
(***************************************************************************)
\* pd.to_datetime on one cell
ToDatetime(c) == IF IsNull(c) THEN c ELSE <<"ts", c[2]>>

\* format_data_types, the two assignments into the frame it was handed
FormatInPlace(t) ==
    LET F(r) == [r EXCEPT !["date"] = ToDatetime(@),
                          !["gameid"] = StrStrip(@),
                          !["playerid"] = StrStrip(@),
                          !["teamid"] = StrStrip(@)]
    IN  [k \in 1..Len(t) |-> F(t[k])]

\* DataFrame.replace: "", "nan" and "null" become NaN
ReplaceNull(c) == IF c \in {<<>>, Str("nan"), Str("null")} THEN Missing ELSE c

\* format_data_types, the frame it returns, from the frame formatted in place
FormatCopy(t) ==
    LET F(r) == [r EXCEPT !["gameid"] = ReplaceNull(@),
                          !["playerid"] = ReplaceNull(@),
                          !["teamid"] = ReplaceNull(@),
                          !["position"] = ReplaceNull(@),
                          !["gamelength"] = @ \div 60]
    IN  [k \in 1..Len(t) |-> F(t[k])]

format_data_types(f) == Ok(DataFrame(FormatCopy(FormatInPlace(f.rows))))

remove_null_games(f) ==
    LET Keep(r) == ~IsNull(r["gameid"])
    IN  Ok(DataFrame(SelectSeq(f.rows, Keep)))

drop_unknown_entities(f) ==
    LET Keep(r) == /\ r["playername"] # Str("unknown player")
                   /\ r["teamname"] # Str("unknown team")
    IN  Ok(DataFrame(SelectSeq(f.rows, Keep)))

\* sort_values: the order of two cells of one column, NaN last
CellLess(c, a, b) ==
    IF IsNull(a) THEN FALSE
    ELSE IF IsNull(b) THEN TRUE
    ELSE IF c = "date" THEN a[2] < b[2]
    ELSE StrLess(a, b)

\* r sorts strictly before q on the key columns
RECURSIVE RowLess(_, _, _)
RowLess(keys, r, q) ==
    IF keys = <<>> THEN FALSE
    ELSE LET c == Head(keys)
         IN  IF CellLess(c, r[c], q[c]) THEN TRUE
             ELSE IF CellLess(c, q[c], r[c]) THEN FALSE
             ELSE RowLess(Tail(keys), r, q)

\* variant: r put in front of the rows it ties with
RECURSIVE InsertSortedBeforeTies(_, _, _)
InsertSortedBeforeTies(keys, t, r) ==
    IF t = <<>> THEN <<r>>
    ELSE IF ~RowLess(keys, t[1], r) THEN <<r>> \o t
    ELSE <<t[1]>> \o InsertSortedBeforeTies(keys, Tail(t), r)

\* r put into the sorted table t behind every row that does not sort after it
RECURSIVE InsertSorted(_, _, _)
InsertSorted(keys, t, r) ==
    IF t = <<>> THEN <<r>>
    ELSE IF RowLess(keys, r, t[1]) THEN <<r>> \o t
    ELSE <<t[1]>> \o InsertSorted(keys, Tail(t), r)

\* DataFrame.sort_values(keys): a stable sort
RECURSIVE SortValues(_, _)
SortValues(keys, t) ==
    IF t = <<>> THEN <<>>
    ELSE InsertSorted(keys, SortValues(keys, SubSeq(t, 1, Len(t) - 1)), t[Len(t)])

PlayerSortKeys == <<"league", "date", "gameid", "side", "position">>
TeamSortKeys == <<"league", "date", "gameid", "side">>

sort_data(f, so) ==
    IF so = "player" THEN Ok(DataFrame(SortValues(PlayerSortKeys, f.rows)))
    ELSE IF so = "team" THEN Ok(DataFrame(SortValues(TeamSortKeys, f.rows)))
    ELSE Ok(NoneValue)

\* Series.fillna(other): NaN cells take the other column's cell of the same row
FillNa(c, other) == IF IsNull(c) THEN other ELSE c

fill_null_team_ids(f, so) ==
    IF so = "player"
    THEN IF ~IsFrame(f) THEN Raise("TypeError")
         ELSE LET F(r) == [r EXCEPT !["teamid"] = FillNa(@, r["teamname"])]
              IN  Ok(DataFrame([k \in 1..Len(f.rows) |-> F(f.rows[k])]))
    ELSE Ok(f)

\* the columns of subset_data's two lists that the model carries
TeamColumns == {"date", "gameid", "side", "league", "teamname", "teamid",
                "egpm", "gamelength"}
PlayerColumns == TeamColumns \cup {"position", "playername", "playerid"}
SubsetColumns(so) == IF so = "team" THEN TeamColumns ELSE PlayerColumns

\* variant: the granularity is lower-cased before it is looked up
RecognizedSplitLower(so) == Lower(so) \in {"team", "player"}

\* subset_data's test of the requested granularity
RecognizedSplit(so) == so \in {"team", "player"}

\* DataFrame.rename(columns={"earned gpm": "egpm"}), then the column list
RenameAndProject(r, cols) ==
    [c \in cols |-> IF c = "egpm" THEN r["earned gpm"] ELSE r[c]]

subset_data(f, so) ==
    IF RecognizedSplit(so)
    THEN IF ~IsFrame(f) \/ so = PyNone THEN Raise("AttributeError")
         ELSE LET Keep(r) == IF Lower(so) = "team"
                             THEN r["position"] = Str("team")
                             ELSE r["position"] # Str("team")
                  P(r) == RenameAndProject(r, SubsetColumns(so))
                  kept == SelectSeq(f.rows, Keep)
              IN  Ok(DataFrame([k \in 1..Len(kept) |-> P(kept[k])]))
    ELSE Raise("ValueError")

\* Series.value_counts of gameid, for one game id
GameCount(t, g) == Cardinality({k \in 1..Len(t) : t[k]["gameid"] = g})

\* the row count remove_inconsistent_games expects of a game
ExpectedCount(so) == IF Lower(so) = "team" THEN 2 ELSE 10

\* variant: only the games with too few rows count as inconsistent
remove_inconsistent_games_AtLeast(f, so) ==
    IF ~IsFrame(f) THEN Raise("TypeError")
    ELSE LET Keep(r) == \/ IsNull(r["gameid"])
                        \/ GameCount(f.rows, r["gameid"]) >= ExpectedCount(so)
         IN  Ok(DataFrame(SelectSeq(f.rows, Keep)))

\* variant: only the games with too many rows count as inconsistent
remove_inconsistent_games_AtMost(f, so) ==
    IF ~IsFrame(f) THEN Raise("TypeError")
    ELSE LET Keep(r) == \/ IsNull(r["gameid"])
                        \/ GameCount(f.rows, r["gameid"]) <= ExpectedCount(so)
         IN  Ok(DataFrame(SelectSeq(f.rows, Keep)))

remove_inconsistent_games(f, so) ==
    IF ~IsFrame(f) THEN Raise("TypeError")
    ELSE LET Keep(r) == \/ IsNull(r["gameid"])
                        \/ GameCount(f.rows, r["gameid"]) = ExpectedCount(so)
         IN  Ok(DataFrame(SelectSeq(f.rows, Keep)))

ColumnList(t, c) == [k \in 1..Len(t) |-> t[k][c]]

\* the columns enrich_opponent_metrics computes: column name -> list
Metrics(t, so) ==
    LET base ==
            [teamid |-> [k \in 1..Len(t) |-> FillNa(t[k]["teamid"], t[k]["teamname"])],
             opponentteam |-> GetOpponent(ColumnList(t, "teamname"), so).opponent,
             opponentteamid |-> GetOpponent(ColumnList(t, "teamid"), so).opponent,
             opponent_egpm |-> GetOpponent(ColumnList(t, "egpm"), so).opponent]
        more ==
            [playerid |-> [k \in 1..Len(t) |->
                              FillNa(t[k]["playerid"], t[k]["playername"])],
             opponentname |-> GetOpponent(ColumnList(t, "playername"), so).opponent,
             opponentid |-> GetOpponent(ColumnList(t, "playerid"), so).opponent]
    IN  IF so = "player" THEN more @@ base ELSE base

\* DataFrame.assign(**metrics)
Assign(t, m) ==
    [k \in 1..Len(t) |->
        [c \in DOMAIN t[k] \cup DOMAIN m |->
            IF c \in DOMAIN m THEN m[c][k] ELSE t[k][c]]]

enrich_opponent_metrics(f, so) ==
    IF ~IsFrame(f) THEN Raise("TypeError")
    ELSE LET probe == GetOpponent(ColumnList(f.rows, "teamname"), so)
         IN  IF probe.err # "" THEN Raise(probe.err)
             ELSE Ok(DataFrame(Assign(f.rows, Metrics(f.rows, so))))

\* variant: the enricher called before the consistency filter
PipelineEnrichFirst ==
    <<"format_data_types", "remove_null_games", "drop_unknown_entities",
      "sort_data", "fill_null_team_ids", "subset_data",
      "enrich_opponent_metrics", "remove_inconsistent_games">>

\* the body of clean_data, in the order it calls its stages
Pipeline == <<"format_data_types", "remove_null_games", "drop_unknown_entities",
              "sort_data", "fill_null_team_ids", "subset_data",
              "remove_inconsistent_games", "enrich_opponent_metrics">>

RunStage(name, f, so) ==
    CASE name = "format_data_types" -> format_data_types(f)
      [] name = "remove_null_games" -> remove_null_games(f)
      [] name = "drop_unknown_entities" -> drop_unknown_entities(f)
      [] name = "sort_data" -> sort_data(f, so)
      [] name = "fill_null_team_ids" -> fill_null_team_ids(f, so)
      [] name = "subset_data" -> subset_data(f, so)
      [] name = "remove_inconsistent_games" -> remove_inconsistent_games(f, so)
      [] OTHER -> enrich_opponent_metrics(f, so)


(***************************************************************************)
(* The pipeline as a state machine: the table is ingested, clean_data is   *)
(* called on it, and runs its stages one after the other.                  *)
(***************************************************************************)
OppIdle ==
    /\ column = <<>>
    /\ entity = ""
    /\ gi = 0
    /\ flag = 0
    /\ opponent = <<>>
    /\ g_pc = "idle"
    /\ g_err = ""

\* the bot has no registration and has received no command
RegIdle ==
    /\ user_registration = <<>>
    /\ cmds = <<>>

PipeIdle ==
    /\ raw = <<>>
    /\ raw_before = <<>>
    /\ edits = 0
    /\ split_on = ""
    /\ team_replacements = NoReplacements
    /\ player_replacements = NoReplacements
    /\ oe_data = NoneValue
    /\ pc = 0
    /\ status = "idle"
    /\ err = ""

Init ==
    /\ raw \in BaseTables
    /\ raw_before = <<>>
    /\ edits = 0
    /\ split_on = ""
    /\ team_replacements = NoReplacements
    /\ player_replacements = NoReplacements
    /\ oe_data = NoneValue
    /\ pc = 0
    /\ status = "idle"
    /\ err = ""
    /\ OppIdle
    /\ RegIdle

Ingesting == status = "idle" /\ edits < MaxEdits

\* the ingested data lacks a row
DropRow ==
    /\ Ingesting
    /\ \E i \in EditRows :
        /\ i <= Len(raw)
        /\ raw' = RemoveAt(raw, i)
    /\ edits' = edits + 1
    /\ UNCHANGED <<raw_before, split_on, team_replacements, player_replacements,
                   oe_data, pc, status, err>>
    /\ UNCHANGED opp_vars
    /\ UNCHANGED reg_vars

\* the ingested data holds a row twice
DuplicateRow ==
    /\ Ingesting
    /\ \E i \in EditRows :
        /\ i <= Len(raw)
        /\ raw' = InsertAfter(raw, i, raw[i])
    /\ edits' = edits + 1
    /\ UNCHANGED <<raw_before, split_on, team_replacements, player_replacements,
                   oe_data, pc, status, err>>
    /\ UNCHANGED opp_vars
    /\ UNCHANGED reg_vars

\* a cell of the ingested data is padded, missing, a sentinel or off
IrregularCell ==
    /\ Ingesting
    /\ \E i \in EditRows, e \in CellEdits :
        /\ i <= Len(raw)
        /\ raw' = [raw EXCEPT ![i] = EditCell(@, e)]
    /\ edits' = edits + 1
    /\ UNCHANGED <<raw_before, split_on, team_replacements, player_replacements,
                   oe_data, pc, status, err>>
    /\ UNCHANGED opp_vars
    /\ UNCHANGED reg_vars

\* clean_data(raw, split_on, team_replacements, player_replacements) is called:
\* its parameter oe_data is the caller's table
Call ==
    /\ status = "idle"
    /\ \E c \in Calls :
        /\ split_on' = c.split_on
        /\ team_replacements' = c.team_replacements
        /\ player_replacements' = c.player_replacements
    /\ raw_before' = raw
    /\ oe_data' = DataFrame(raw)
    /\ pc' = 1
    /\ status' = "running"
    /\ UNCHANGED <<raw, edits, err>>
    /\ UNCHANGED opp_vars
    /\ UNCHANGED reg_vars

AtStage(name) ==
    /\ status = "running"
    /\ pc \in 1..Len(Pipeline)
    /\ Pipeline[pc] = name

\* one stage of clean_data runs: oe_data = self.<stage>(oe_data, ...)
Step(name) ==
    /\ AtStage(name)
    /\ LET out == RunStage(name, oe_data, split_on)
       IN  IF out.ok
           THEN /\ oe_data' = out.frame
                /\ pc' = pc + 1
                /\ UNCHANGED <<status, err>>
           ELSE /\ status' = "raised"
                /\ err' = out.err
                /\ UNCHANGED <<oe_data, pc>>
    /\ UNCHANGED <<raw_before, edits, split_on, team_replacements,
                   player_replacements>>
    /\ UNCHANGED opp_vars
    /\ UNCHANGED reg_vars

\* format_data_types also assigns into the frame it was handed: the caller's
FormatDataTypes ==
    /\ Step("format_data_types")
    /\ raw' = FormatInPlace(raw)

RemoveNullGames == Step("remove_null_games") /\ UNCHANGED raw

DropUnknownEntities == Step("drop_unknown_entities") /\ UNCHANGED raw

SortData == Step("sort_data") /\ UNCHANGED raw

FillNullTeamIds == Step("fill_null_team_ids") /\ UNCHANGED raw

SubsetData == Step("subset_data") /\ UNCHANGED raw

RemoveInconsistentGames == Step("remove_inconsistent_games") /\ UNCHANGED raw

EnrichOpponentMetrics == Step("enrich_opponent_metrics") /\ UNCHANGED raw

\* return oe_data
Return ==
    /\ status = "running"
    /\ pc = Len(Pipeline) + 1
    /\ status' = "returned"
    /\ UNCHANGED <<raw, raw_before, edits, split_on, team_replacements,
                   player_replacements, oe_data, pc, err>>
    /\ UNCHANGED opp_vars
    /\ UNCHANGED reg_vars

Next ==
    \/ DropRow
    \/ DuplicateRow
    \/ IrregularCell
    \/ Call
    \/ FormatDataTypes
    \/ RemoveNullGames
    \/ DropUnknownEntities
    \/ SortData
    \/ FillNullTeamIds
    \/ SubsetData
    \/ RemoveInconsistentGames
    \/ EnrichOpponentMetrics
    \/ Return

Spec == Init /\ [][Next]_vars

(***************************************************************************)
(* get_opponent on its own, one loop iteration at a time.                  *)
(***************************************************************************)
ColumnValues == {"a", "b"}

RECURSIVE ColumnsOfLen(_)
ColumnsOfLen(n) ==
    IF n = 0 THEN {<<>>}
    ELSE {Append(c, v) : c \in ColumnsOfLen(n - 1), v \in ColumnValues}

ColumnInputs == UNION {ColumnsOfLen(n) : n \in 0..MaxCol}

EntityValues == {"team", "player", "coach"}

OppInit ==
    /\ PipeIdle
    /\ RegIdle
    /\ column \in ColumnInputs
    /\ entity \in EntityValues
    /\ gi = 0
    /\ flag = 0
    /\ opponent = <<>>
    /\ g_pc = "start"
    /\ g_err = ""

Locals == [i |-> gi, flag |-> flag, opponent |-> opponent, err |-> g_err]

\* gap = gap_dict.get(entity); raise ValueError when it is None
GapLookup ==
    /\ g_pc = "start"
    /\ IF Gap(entity) = 0
       THEN g_pc' = "raised" /\ g_err' = "ValueError"
       ELSE g_pc' = "loop" /\ g_err' = ""
    /\ UNCHANGED <<column, entity, gi, flag, opponent>>
    /\ UNCHANGED pipe_vars
    /\ UNCHANGED reg_vars

\* one iteration of for i, obj in enumerate(column)
LoopIteration ==
    /\ g_pc = "loop"
    /\ gi < Len(column)
    /\ LET s == LoopBody(column, Gap(entity), Locals)
       IN  /\ gi' = s.i
           /\ flag' = s.flag
           /\ opponent' = s.opponent
           /\ g_err' = s.err
           /\ g_pc' = IF s.err # "" THEN "raised" ELSE "loop"
    /\ UNCHANGED <<column, entity>>
    /\ UNCHANGED pipe_vars
    /\ UNCHANGED reg_vars

\* return opponent
OppReturn ==
    /\ g_pc = "loop"
    /\ gi >= Len(column)
    /\ g_pc' = "returned"
    /\ UNCHANGED <<column, entity, gi, flag, opponent, g_err>>
    /\ UNCHANGED pipe_vars
    /\ UNCHANGED reg_vars

OppNext == GapLookup \/ LoopIteration \/ OppReturn

OppSpec == OppInit /\ [][OppNext]_vars


(***************************************************************************)
(* Vocabulary of the properties.                                           *)
(***************************************************************************)
Returned == status = "returned"
Raised == status = "raised"

\* the table clean_data returned
Output == oe_data.rows

\* the game a raw row belongs to: its gameid as the pipeline reads it
NormId(c) == ReplaceNull(StrStrip(c))

\* the raw row is one of the requested granularity
AtGranularity(r, so) ==
    IF so = "team" THEN r["position"] = Str("team")
    ELSE ReplaceNull(r["position"]) # Str("team")

\* the rows of game g in the raw table, at the requested granularity
RawRowsOf(t, g, so) ==
    {k \in 1..Len(t) : NormId(t[k]["gameid"]) = g /\ AtGranularity(t[k], so)}

RawGames(t) == {NormId(t[k]["gameid"]) : k \in 1..Len(t)} \ {Missing}

InOutput(g) == \E j \in 1..Len(Output) : Output[j]["gameid"] = g

\* the stage has run to its end in this call
Executed(name) ==
    /\ status # "idle"
    /\ \E k \in 1..Len(Pipeline) : Pipeline[k] = name /\ k < pc

\* the stage has been entered in this call
Reached(name) ==
    /\ status # "idle"
    /\ \E k \in 1..Len(Pipeline) : Pipeline[k] = name /\ k <= pc

\* the call stopped in the stage
AtStageOf(name) == pc \in 1..Len(Pipeline) /\ Pipeline[pc] = name

\* every row of a game carries the game's league and date
WellFormed(t) ==
    \A j, k \in 1..Len(t) :
        (NormId(t[j]["gameid"]) = NormId(t[k]["gameid"])
            /\ NormId(t[j]["gameid"]) # Missing)
        => (t[j]["league"] = t[k]["league"] /\ t[j]["date"] = t[k]["date"])

(***************************************************************************)
(* C1: in the table clean returns, every gameid present is carried by      *)
(* exactly 2 rows at team granularity and exactly 10 rows at player        *)
(* granularity, whatever the raw input (ragged games, duplicated rows,     *)
(* missing ids).                                                           *)
(***************************************************************************)
C1_GroupSize ==
    Returned =>
        \A j \in 1..Len(Output) :
            Cardinality({k \in 1..Len(Output) :
                            Output[k]["gameid"] = Output[j]["gameid"]})
                = IF split_on = "team" THEN 2 ELSE 10

\* a player-level game came through whole while the raw table was irregular
C1_Witness ==
    /\ Returned
    /\ split_on = "player"
    /\ Len(Output) = 10
    /\ edits > 0

(***************************************************************************)
(* C2: at team granularity on well-formed input, when output rows i and    *)
(* i+1 are the two rows of one game, row i's opponentteam is row i+1's     *)
(* teamname and row i+1's opponentteam is row i's teamname.                *)
(***************************************************************************)
C2_OpponentSymmetry ==
    (Returned /\ split_on = "team" /\ WellFormed(raw_before)) =>
        \A j \in 1..(Len(Output) - 1) :
            Output[j]["gameid"] = Output[j + 1]["gameid"] =>
                /\ Output[j]["opponentteam"] = Output[j + 1]["teamname"]
                /\ Output[j + 1]["opponentteam"] = Output[j]["teamname"]

\* both games came through: Alpha faces Beta, and Beta faces Alpha
C2_Witness ==
    /\ Returned
    /\ split_on = "team"
    /\ WellFormed(raw_before)
    /\ Len(Output) = 4
    /\ Output[1]["teamname"] = Str("Alpha")
    /\ Output[1]["opponentteam"] = Str("Beta")
    /\ Output[2]["opponentteam"] = Str("Alpha")

(***************************************************************************)
(* C3, as stated: on every run the Opponent Enricher executes before the   *)
(* Consistency Filter: once remove_inconsistent_games has run,             *)
(* enrich_opponent_metrics has run already.                                *)
(***************************************************************************)
C3_EnrichBeforeFilter ==
    Executed("remove_inconsistent_games") => Executed("enrich_opponent_metrics")

(***************************************************************************)
(* C3, amended: on every run the Consistency Filter executes before the    *)
(* Opponent Enricher, so the table the enricher is handed holds only games *)
(* of exactly 2 (team) or 10 (player) rows.                                *)
(***************************************************************************)
C3_FilterBeforeEnrich ==
    Reached("enrich_opponent_metrics") =>
        /\ Executed("remove_inconsistent_games")
        /\ IsFrame(oe_data)
        /\ \A j \in 1..Len(oe_data.rows) :
              Cardinality({k \in 1..Len(oe_data.rows) :
                              oe_data.rows[k]["gameid"] = oe_data.rows[j]["gameid"]})
                  = IF split_on = "team" THEN 2 ELSE 10

\* the enricher is about to run on a table the filter took a ragged game out of
C3_Witness ==
    /\ AtStage("enrich_opponent_metrics")
    /\ oe_data.rows # <<>>
    /\ \E g \in RawGames(raw_before) :
          /\ Cardinality(RawRowsOf(raw_before, g, split_on)) \notin {0, 2, 10}
          /\ \A k \in 1..Len(oe_data.rows) : oe_data.rows[k]["gameid"] # g

(***************************************************************************)
(* C4: when the raw table holds a game with only one row at the requested  *)
(* granularity, clean returns a table in which no row of that game         *)
(* appears; the run does not end in an index-out-of-range error, wherever  *)
(* the game stands in the sorted sequence.                                 *)
(***************************************************************************)
OneRowGames(t, so) ==
    {g \in RawGames(t) : Cardinality(RawRowsOf(t, g, so)) = 1}

C4_OneRowGameRemoved ==
    (split_on \in {"team", "player"} /\ OneRowGames(raw_before, split_on) # {}) =>
        /\ ~Raised
        /\ Returned => \A g \in OneRowGames(raw_before, split_on) : ~InOutput(g)

\* the one-row game sorts first, the game behind it came through
C4_Witness ==
    /\ Returned
    /\ split_on = "team"
    /\ Str("g1") \in OneRowGames(raw_before, split_on)
    /\ Len(Output) = 2
    /\ Output[1]["gameid"] = Str("g2")

(***************************************************************************)
(* C5: get_opponent(column, entity) raises IndexError, and returns no      *)
(* list, for every column whose length is not a multiple of 2*gap (gap 1   *)
(* for team, 5 for player), and returns for every column whose length is   *)
(* such a multiple, the empty column included.                             *)
(***************************************************************************)
C5_IndexError ==
    (entity \in {"team", "player"} /\ g_pc \in {"returned", "raised"}) =>
        LET cycle == IF entity = "team" THEN 2 ELSE 10
        IN  IF Len(column) % cycle = 0
            THEN g_pc = "returned" /\ g_err = "" /\ Len(opponent) = Len(column)
            ELSE g_pc = "raised" /\ g_err = "IndexError"

\* eleven player rows: the cursor runs off the end in the second cycle
C5_Witness ==
    /\ entity = "player"
    /\ Len(column) = 11
    /\ g_pc = "raised"
    /\ g_err = "IndexError"
    /\ gi = 10


(***************************************************************************)
(* C6: every row of the table clean returns has a non-missing entity       *)
(* identifier: teamid at both granularities, playerid too at player        *)
(* granularity, whatever identifiers and display names the raw rows lack.  *)
(***************************************************************************)
C6_NoMissingIds ==
    Returned =>
        \A j \in 1..Len(Output) :
            /\ ~IsNull(Output[j]["teamid"])
            /\ split_on = "player" => ~IsNull(Output[j]["playerid"])

C8_UnknownGamesDropped ==
    Returned =>
        \A k \in 1..Len(raw_before) :
            (\/ raw_before[k]["teamname"] = Str("unknown team")
             \/ raw_before[k]["playername"] = Str("unknown player"))
            => ~InOutput(NormId(raw_before[k]["gameid"]))

(***************************************************************************)
(* C9: the replacement maps handed to clean are applied: every output row  *)
(* carries the mapped name of the raw row it comes from, and no old name   *)
(* is left in the name and opponent-name columns of the output.            *)
(***************************************************************************)
Renamed(m, c) == IF c \in DOMAIN m THEN m[c] ELSE c

C9_ReplacementsApplied ==
    Returned =>
        \A j \in 1..Len(Output) :
            /\ Output[j]["teamname"] \notin DOMAIN team_replacements
            /\ Output[j]["opponentteam"] \notin DOMAIN team_replacements
            /\ \E k \in 1..Len(raw_before) :
                  /\ NormId(raw_before[k]["gameid"]) = Output[j]["gameid"]
                  /\ Output[j]["teamname"]
                        = Renamed(team_replacements, raw_before[k]["teamname"])
            /\ split_on = "player" =>
                  /\ Output[j]["playername"] \notin DOMAIN player_replacements
                  /\ Output[j]["opponentname"] \notin DOMAIN player_replacements

(***************************************************************************)
(* C10: the raw table handed to clean is never mutated in place: while     *)
(* clean runs and after it returned or raised, every cell of the caller's  *)
(* table holds the value it held before the call.                          *)
(***************************************************************************)
C10_RawUntouched == status # "idle" => raw = raw_before


(***************************************************************************)
(* C11: at player granularity every row of the table clean returns has,    *)
(* as opponentname and opponentid, the playername and playerid of the row  *)
(* of the same game that is on the other side and plays the same position: *)
(* the row five places further down or up.                                 *)
(***************************************************************************)
C11_PlayerOpponent ==
    (Returned /\ split_on = "player") =>
        \A j \in 1..Len(Output) :
            \E k \in {j - 5, j + 5} \cap (1..Len(Output)) :
                /\ Output[k]["gameid"] = Output[j]["gameid"]
                /\ Output[k]["side"] # Output[j]["side"]
                /\ Output[k]["position"] = Output[j]["position"]
                /\ Output[j]["opponentname"] = Output[k]["playername"]
                /\ Output[j]["opponentid"] = Output[k]["playerid"]


(***************************************************************************)
(* What C12 says of a table t sorted into u for granularity so.            *)
(***************************************************************************)
\* the rows sharing a gameid stand together
GamesContiguous(u) ==
    \A a, b, c \in 1..Len(u) :
        (a < b /\ b < c /\ u[a]["gameid"] = u[c]["gameid"])
            => u[b]["gameid"] = u[a]["gameid"]

\* within a game: by side, and at player granularity by position within side
OrderedInGame(u, so) ==
    \A a, b \in 1..Len(u) :
        (a < b /\ u[a]["gameid"] = u[b]["gameid"]) =>
            /\ ~StrLess(u[b]["side"], u[a]["side"])
            /\ (so = "player" /\ u[a]["side"] = u[b]["side"])
                  => ~StrLess(u[b]["position"], u[a]["position"])

\* two rows tie: they agree on every sort key of the granularity
Tie(r, q, so) ==
    /\ r["league"] = q["league"]
    /\ r["date"] = q["date"]
    /\ r["gameid"] = q["gameid"]
    /\ r["side"] = q["side"]
    /\ so = "player" => r["position"] = q["position"]

\* u holds the rows of t, the rows that tie in their order in t
TiesKeepOrder(t, u, so) ==
    /\ Len(u) = Len(t)
    /\ \A a \in 1..Len(t) :
          LET T(q) == Tie(t[a], q, so)
          IN  SelectSeq(u, T) = SelectSeq(t, T)

SortedAsClaimed(t, u, so) ==
    /\ GamesContiguous(u)
    /\ OrderedInGame(u, so)
    /\ TiesKeepOrder(t, u, so)

(***************************************************************************)
(* C12, as stated: after sort_data, for any input table, the rows sharing  *)
(* a gameid are contiguous, each game is ordered by side (and by position  *)
(* within side at player granularity), and ties keep their original order. *)
(***************************************************************************)
C12_SortAnyTable ==
    [][(AtStage("sort_data") /\ split_on \in {"team", "player"})
          => SortedAsClaimed(oe_data.rows, oe_data'.rows, split_on)]_vars

(***************************************************************************)
(* C12, amended: after sort_data, for any input table in which the rows    *)
(* sharing a gameid carry the same league and date, the rows sharing a     *)
(* gameid are contiguous, each game is ordered by side (and by position    *)
(* within side at player granularity), and ties keep their original order. *)
(***************************************************************************)
C12_SortWellFormed ==
    [][(AtStage("sort_data") /\ split_on \in {"team", "player"}
            /\ WellFormed(oe_data.rows))
          => SortedAsClaimed(oe_data.rows, oe_data'.rows, split_on)]_vars

\* a whole game sorted for team granularity: the five Blue player rows and
\* the Blue team row tie and keep the raw order, ahead of the Red rows
C12_Witness ==
    /\ AtStage("fill_null_team_ids")
    /\ split_on = "team"
    /\ WellFormed(raw_before)
    /\ Len(oe_data.rows) = 12
    /\ oe_data.rows[1]["position"] = Str("top")
    /\ oe_data.rows[6]["position"] = Str("team")
    /\ oe_data.rows[7]["side"] = Str("Red")


(***************************************************************************)
(* C13: on a column whose length is a multiple of 2*gap, get_opponent      *)
(* returns a list of the column's length whose element i is column[i+gap]  *)
(* when i mod 2*gap < gap and column[i-gap] otherwise; at every step the   *)
(* flag equals i mod 2*gap, a running counter over the whole column, and   *)
(* the 'Out Of Bounds' ValueError branch is never taken.                   *)
(***************************************************************************)
C13_CycleCounter ==
    LET gap == IF entity = "team" THEN 1 ELSE 5
        cycle == 2 * gap
    IN  (entity \in {"team", "player"} /\ Len(column) % cycle = 0
            /\ g_pc \in {"loop", "returned", "raised"}) =>
            /\ g_pc # "raised"
            /\ g_err = ""
            /\ g_pc = "loop" => flag = gi % cycle
            /\ g_pc = "returned" => gi = Len(column)
            /\ Len(opponent) = gi
            /\ \A i \in 0..(gi - 1) :
                  opponent[i + 1] = IF i % cycle < gap
                                    THEN column[i + gap + 1]
                                    ELSE column[i - gap + 1]

\* two team cycles: the flag went 0, 1, 0, 1 across the four rows
C13_Witness ==
    /\ entity = "team"
    /\ column = <<"a", "b", "b", "a">>
    /\ g_pc = "returned"
    /\ opponent = <<"b", "a", "a", "b">>


(***************************************************************************)
(* C14: in the table clean returns, each row's opponent identifier is the  *)
(* identifier its opponent row holds in that same table: opponentteamid is *)
(* the opponent row's teamid, and at player granularity opponentid is the  *)
(* opponent row's playerid, also where the identifier was missing in the   *)
(* raw data and was backfilled from the display name.                      *)
(***************************************************************************)
C14_OpponentIds ==
    Returned =>
        LET gap == IF split_on = "team" THEN 1 ELSE 5
        IN  \A j \in 1..Len(Output) :
                LET k == IF (j - 1) % (2 * gap) < gap THEN j + gap ELSE j - gap
                IN  /\ Output[j]["opponentteamid"] = Output[k]["teamid"]
                    /\ split_on = "player" =>
                          Output[j]["opponentid"] = Output[k]["playerid"]


(***************************************************************************)
(* The Discord bot's !register command.  The bot runs its commands as      *)
(* coroutines on one event loop: the code between two awaits runs without  *)
(* interruption, and at each await any other command may run.              *)
(***************************************************************************)
\* the Discord users who write to the bot
Users == {"u1", "u2"}

\* is_registered: whether the SELECT on discord_id finds a row; when the
\* connection or the query raises, the except branch prints the error and
\* the function falls off its end
is_registered(table, user_id, db_ok) ==
    IF ~db_ok THEN "None"
    ELSE IF \E k \in 1..Len(table) : table[k].discord_id = user_id
         THEN "True"
         ELSE "False"

\* Python's truth value of what is_registered returns
Truthy(v) == v = "True"

\* a message of user_id reaches every wait_for whose check accepts its author
Deliver(cs, user_id, content) ==
    [k \in 1..Len(cs) |->
        IF cs[k].author = user_id /\ cs[k].pc = "waiting"
        THEN [cs[k] EXCEPT !.pc = "received", !.email = content]
        ELSE cs[k]]

\* a user writes "!register": the message first reaches the wait_for
\* listeners, then the command runs up to its first await
Register ==
    \E user_id \in Users, db_ok \in BOOLEAN :
        /\ Len(cmds) < MaxCmds
        /\ cmds' = Append(Deliver(cmds, user_id, "!register"),
                     IF Truthy(is_registered(user_registration, user_id, db_ok))
                     THEN [author |-> user_id, pc |-> "done", email |-> "",
                           reply |-> "You are already registered."]
                     ELSE [author |-> user_id, pc |-> "prompting", email |-> "",
                           reply |-> ""])
        /\ UNCHANGED user_registration
        /\ UNCHANGED pipe_vars
        /\ UNCHANGED opp_vars

\* the prompt for the e-mail address is sent and the command starts to wait
PromptSent ==
    \E c \in 1..Len(cmds) :
        /\ cmds[c].pc = "prompting"
        /\ cmds' = [cmds EXCEPT ![c].pc = "waiting"]
        /\ UNCHANGED user_registration
        /\ UNCHANGED pipe_vars
        /\ UNCHANGED opp_vars

\* a user writes a message that is no command: every command waiting for
\* this author takes it as the e-mail address
Message ==
    \E user_id \in Users :
        /\ \E c \in 1..Len(cmds) :
              cmds[c].author = user_id /\ cmds[c].pc = "waiting"
        /\ cmds' = Deliver(cmds, user_id, "mail")
        /\ UNCHANGED user_registration
        /\ UNCHANGED pipe_vars
        /\ UNCHANGED opp_vars

\* sixty seconds pass without a message of the author
Timeout ==
    \E c \in 1..Len(cmds) :
        /\ cmds[c].pc = "waiting"
        /\ cmds' = [cmds EXCEPT ![c].pc = "done",
                       ![c].reply = "Registration timed out. Please try again."]
        /\ UNCHANGED user_registration
        /\ UNCHANGED pipe_vars
        /\ UNCHANGED opp_vars

\* the command resumes with the message, inserts its row and commits
Insert ==
    \E c \in 1..Len(cmds) :
        /\ cmds[c].pc = "received"
        /\ user_registration' = Append(user_registration,
                                   [discord_id |-> cmds[c].author,
                                    email |-> cmds[c].email])
        /\ cmds' = [cmds EXCEPT ![c].pc = "done",
                       ![c].reply = "Registration successful!"]
        /\ UNCHANGED pipe_vars
        /\ UNCHANGED opp_vars

\* the command resumes with the message and the connection, the INSERT or
\* the commit raises
InsertFails ==
    \E c \in 1..Len(cmds) :
        /\ cmds[c].pc = "received"
        /\ cmds' = [cmds EXCEPT ![c].pc = "done",
                       ![c].reply = "Error registering user"]
        /\ UNCHANGED user_registration
        /\ UNCHANGED pipe_vars
        /\ UNCHANGED opp_vars

RegInit ==
    /\ PipeIdle
    /\ OppIdle
    /\ RegIdle

RegNext ==
    \/ Register
    \/ PromptSent
    \/ Message
    \/ Timeout
    \/ Insert
    \/ InsertFails

RegSpec == RegInit /\ [][RegNext]_vars


(***************************************************************************)
(* C15: under any interleaving of !register commands, two commands of one  *)
(* user waiting for the e-mail reply and a registration check that fails   *)
(* with a database error included, the table user_registration holds at    *)
(* most one row for each discord_id.                                       *)
(***************************************************************************)
C15_OneRowPerUser ==
    \A user_id \in Users :
        Cardinality({k \in 1..Len(user_registration) :
                        user_registration[k].discord_id = user_id}) <= 1

====
